---- MODULE Spec2Model ----
(***************************************************************************)
(* Model of ksjutil (src/__init__.py, src/_conv/G02/__init__.py): the      *)
(* column metadata store, the cached code-list reader, the legacy value    *)
(* converter, the column renamer and cleanup().                            *)
(*                                                                         *)
(* Python values are modelled as follows.                                  *)
(*   - strings are TLA+ strings; the bool stored under "has_code_table"    *)
(*     is written as its Python text "True"/"False" so that the metadata   *)
(*     dict (year keys and the three extra keys in ONE dict) stays a       *)
(*     function from strings to strings;                                   *)
(*   - the year argument is <<"None",0>>, <<"int",n>> or <<"str",s>>;      *)
(*   - a cell is <<"int",n>>, <<"float",t>> (t tenths, i.e. t/10),         *)
(*     <<"str",s>> (a label) or <<"NA",0>> (pandas.NA);                    *)
(*   - a DataFrame is [columns : Seq, data : Seq of columns of cells];     *)
(*     DataFrame objects live in heap, df and 1 (the caller's) are         *)
(*     references into it.                                                 *)
(***************************************************************************)
EXTENDS Integers, Sequences, FiniteSets, TLC

VARIABLES
    cache,          \* closure variable cache of _create_cached_code_list_fun
    pc,             \* position of the running cleanup() call
    heap,           \* DataFrame objects: 1 = caller's table, 2 = df.copy()
    df,             \* the local name df of cleanup(): a reference into heap
    arg_df,         \* the caller's table as it was when cleanup() was called
    year,           \* cleanup() argument
    inplace,        \* cleanup() argument
    language,       \* cleanup() argument
    idx,            \* position of the for loop of _convert_code
    ret,            \* what cleanup() returned or raised
    lookups,        \* column names passed to _read_codelist in this call
    warningLog,     \* column names named by warnings.warn
    G02_LATEST_YEAR,\* G02.LATEST_YEAR
    ncalls,         \* cleanup() calls made so far
    req,            \* last direct request to read_code_list
    res,            \* its result
    fin,            \* last arguments of _find_column_name_from_data_dir
    fout,           \* its result
    tpc,            \* per-thread position inside read_code_list
    tdict,          \* per-thread local code_dict
    tres            \* per-thread result

vars == <<cache, pc, heap, df, arg_df, year, inplace, language, idx, ret,
          lookups, warningLog, G02_LATEST_YEAR, ncalls, req, res, fin,
          fout, tpc, tdict, tres>>

cleanupVars == <<pc, heap, df, arg_df, year, inplace, language, idx, ret,
                 lookups, G02_LATEST_YEAR, ncalls>>
resolveVars == <<req, res>>
renameVars == <<fin, fout>>
raceVars == <<tpc, tdict, tres>>

----------------------------------------------------------------------------
(* Bounds of the model *)

MaxCols == 2        \* columns of an input table
MaxCalls == 2       \* cleanup() calls in one run
NumThreads == 2     \* threads racing on one cache key

----------------------------------------------------------------------------
(* Python values *)

PyNone == <<"None", 0>>
PyInt(n) == <<"int", n>>
PyStr(s) == <<"str", s>>
PyFloat(t) == <<"float", t>>
NA == <<"NA", 0>>

Range(f) == {f[x] : x \in DOMAIN f}

Max(S) == CHOOSE m \in S : \A x \in S : x <= m

\* str(n) and int(s) on the years that occur
IntStr == (1999 :> "1999" @@ 2010 :> "2010" @@ 2012 :> "2012")
StrInt == ("1999" :> 1999 @@ "2010" :> 2010 @@ "2012" :> 2012)

\* str(year)
str(y) == IF y[1] = "None" THEN "None"
          ELSE IF y[1] = "int" THEN IntStr[y[2]]
          ELSE y[2]

----------------------------------------------------------------------------
(* The data directory _data: meta.json descriptors, per-year code files    *)
(* and column_names.txt                                                    *)

Languages == {"ja", "en"}

\* meta.json of every column directory: language -> year -> display name
Descriptor ==
    ("G02_002" :> ("ja" :> ("2010" :> "temp2010" @@ "2012" :> "temp")
                   @@ "en" :> ("2012" :> "Temperature")))
 @@ ("G02_003" :> ("ja" :> ("2012" :> "rain")))
 @@ ("A01_001" :> ("ja" :> ("2010" :> "kind2010" @@ "2012" :> "kind")
                   @@ "en" :> ("2010" :> "Kind")))
 @@ ("A01_002" :> ("ja" :> ("2010" :> "P01_001" @@ "2012" :> "class")))

\* <column>/<year>.txt: code -> data
CodeFiles ==
    (<<"G02_003", "2012">> :> (1 :> "rain_low" @@ 2 :> "rain_high"))
 @@ (<<"A01_001", "2012">> :> (1 :> "kind_a" @@ 10 :> "kind_b"))
 @@ (<<"A01_002", "2010">> :> (10 :> "class_old"))
 @@ (<<"A01_002", "2012">> :> (10 :> "class_x"))

\* column_names.txt
ColumnNamesFile ==
    ("ja" :> ("A01_002" :> "class_static" @@ "P01_001" :> "facility"))
 @@ ("en" :> ("A01_002" :> "Class" @@ "P01_001" :> "Facility"))

\* column identifiers a table may carry
Columns == {"G02_002", "G02_003", "A01_001", "A01_002", "X"}

\* the raw codes every column of an input table carries, one per row
Cells == <<PyInt(10), PyInt(999)>>

\* year arguments
Years == {PyNone, PyInt(2012), PyStr("2012"), PyStr("2010")}
MoreYears == Years \cup {PyInt(2010), PyInt(1999), PyStr("latest_year"),
                         PyStr("default_name"), PyStr("has_code_table")}

----------------------------------------------------------------------------
(* Constants of the package *)

\* the registered converter applies to year 2012 (int)
CONVERT_YEAR == 2012

\* names built by G02.convert, cut down to the first two
names == <<"G02_002", "G02_003">>

----------------------------------------------------------------------------
(* DataFrame helpers *)

EmptyFrame == [columns |-> <<>>, data |-> <<>>]

\* position of the column labelled name
ColPos(d, name) ==
    CHOOSE j \in 1..Len(d.columns) :
        /\ d.columns[j] = name
        /\ \A k \in 1..(j - 1) : d.columns[k] # name

HasColumn(d, name) == \E j \in 1..Len(d.columns) : d.columns[j] = name

\* df[name] = cells
SetColumn(d, name, cells) == [d EXCEPT !.data[ColPos(d, name)] = cells]

\* input tables: distinct column identifiers, every column the cells Cells
InjectiveSeqs(S, n) ==
    {s \in [1..n -> S] : \A i, j \in 1..n : i # j => s[i] # s[j]}

Tables ==
    {[columns |-> cs, data |-> [j \in 1..Len(cs) |-> Cells]] :
        cs \in UNION {InjectiveSeqs(Columns, n) : n \in 1..MaxCols}}

----------------------------------------------------------------------------
(* G02.convert *)

\* one cell of df[i] / 10 (the cells of an input table are ints)
Div10(c) == PyFloat(c[2])

RECURSIVE convertFrom(_, _)
convertFrom(d, k) ==
    IF k > Len(names) THEN [df |-> d, exc |-> "ok"]
    ELSE IF ~HasColumn(d, names[k]) THEN [df |-> d, exc |-> "KeyError"]
    ELSE LET col == d.data[ColPos(d, names[k])]
         IN convertFrom(
                SetColumn(d, names[k], [r \in DOMAIN col |-> Div10(col[r])]),
                k + 1)

convert(d) == convertFrom(d, 1)

----------------------------------------------------------------------------
(* _convert_values *)

ConverterFires(y, latest) ==
    \/ (y[1] = "int" /\ y[2] = CONVERT_YEAR)
    \/ (y[1] = "None" /\ CONVERT_YEAR = latest)

_convert_values(d, y, latest) ==
    IF ConverterFires(y, latest) THEN convert(d)
    ELSE [df |-> d, exc |-> "ok"]

----------------------------------------------------------------------------
(* Metadata store *)

_read_default_column_name_conversion_table == ColumnNamesFile

HasCodeFiles(column_name) ==
    Cardinality({f \in DOMAIN CodeFiles : f[1] = column_name}) + 1 > 1

_read_column_metadata(column_name, lang) ==
    LET metadata == Descriptor[column_name][lang]
        latest_year == IntStr[Max({StrInt[i] : i \in DOMAIN metadata})]
    IN  ("latest_year" :> latest_year
         @@ "default_name" :> metadata[latest_year]
         @@ "has_code_table" :>
                (IF HasCodeFiles(column_name) THEN "True" ELSE "False"))
        @@ metadata

_create_column_metadata_list(lang) ==
    [i \in {c \in DOMAIN Descriptor : lang \in DOMAIN Descriptor[c]} |->
        _read_column_metadata(i, lang)]

_COLUMN_LIST == [lang \in Languages |-> _create_column_metadata_list(lang)]

_DEFAULT_COLUMNS ==
    [lang \in Languages |-> _read_default_column_name_conversion_table[lang]]

----------------------------------------------------------------------------
(* Code lookup *)

NoTable == <<>>
NoneRes == [tag |-> "None", table |-> NoTable]
Raised(e) == [tag |-> e, table |-> NoTable]
Found(t) == [tag |-> "table", table |-> t]

\* variant: the year argument is ignored and the latest file is always read
_read_codelist_file_latestOnly(column_name, y, lang) ==
    LET column_list == _COLUMN_LIST[lang] IN
    IF column_name \notin DOMAIN column_list THEN NoneRes
    ELSE IF column_list[column_name]["has_code_table"] # "True" THEN NoneRes
    ELSE LET yy == column_list[column_name]["latest_year"]
         IN IF <<column_name, yy>> \in DOMAIN CodeFiles
            THEN Found(CodeFiles[<<column_name, yy>>])
            ELSE Raised("FileNotFoundError")

_read_codelist_file(column_name, y, lang) ==
    LET column_list == _COLUMN_LIST[lang] IN
    IF column_name \notin DOMAIN column_list THEN NoneRes
    ELSE IF column_list[column_name]["has_code_table"] # "True" THEN NoneRes
    ELSE LET yy == IF y[1] = "None"
                   THEN PyStr(column_list[column_name]["latest_year"])
                   ELSE y
         IN IF yy[1] = "int" THEN Raised("TypeError")
            ELSE IF <<column_name, yy[2]>> \in DOMAIN CodeFiles
                 THEN Found(CodeFiles[<<column_name, yy[2]>>])
                 ELSE Raised("FileNotFoundError")

\* "{0}-{1}".format(column_name, str(year))
CacheKey(column_name, y) == <<column_name, str(y)>>

\* read_code_list: the result and the cache it leaves
read_code_list(c, column_name, y, lang) ==
    LET key == CacheKey(column_name, y) IN
    IF key \in DOMAIN c THEN [res |-> Found(c[key]), cache |-> c]
    ELSE LET code_dict == _read_codelist_file(column_name, y, lang)
         IN [res |-> code_dict,
             cache |-> IF code_dict.tag = "table"
                       THEN (key :> code_dict.table) @@ c
                       ELSE c]

\* code in code_dict, and code_dict[code]
InDict(code, code_dict) ==
    \/ (code[1] = "int" /\ code[2] \in DOMAIN code_dict)
    \/ (code[1] = "float" /\ code[2] % 10 = 0
                          /\ (code[2] \div 10) \in DOMAIN code_dict)

DictGet(code, code_dict) ==
    IF code[1] = "int" THEN code_dict[code[2]] ELSE code_dict[code[2] \div 10]

\* variant: a code missing from the table is left as it is
SubstituteCell_keepRaw(code, code_dict) ==
    IF InDict(code, code_dict) THEN PyStr(DictGet(code, code_dict)) ELSE code

SubstituteCell(code, code_dict) ==
    IF InDict(code, code_dict) THEN PyStr(DictGet(code, code_dict)) ELSE NA

----------------------------------------------------------------------------
(* Column renamer *)

\* the name returned and whether warnings.warn was called
_find_column_name_from_data_dir(column_name, y, lang) ==
    LET column_list == _COLUMN_LIST[lang] IN
    IF column_name \notin DOMAIN column_list
    THEN [name |-> column_name, warn |-> FALSE]
    ELSE IF y[1] = "None"
    THEN [name |-> column_list[column_name]["default_name"], warn |-> FALSE]
    ELSE IF str(y) \notin DOMAIN column_list[column_name]
    THEN [name |-> column_list[column_name]["default_name"], warn |-> TRUE]
    ELSE [name |-> column_list[column_name][str(y)], warn |-> FALSE]

\* variant: the static table is consulted with the column identifier
_rename_columns_byIdentifier(d, y, conv_table, lang) ==
    [d EXCEPT !.columns =
        [j \in DOMAIN d.columns |->
            IF d.columns[j] \in DOMAIN conv_table
            THEN conv_table[d.columns[j]]
            ELSE _find_column_name_from_data_dir(d.columns[j], y, lang).name]]

_rename_columns(d, y, conv_table, lang) ==
    LET first == [j \in DOMAIN d.columns |->
                    _find_column_name_from_data_dir(d.columns[j], y, lang).name]
    IN [d EXCEPT !.columns =
            [j \in DOMAIN first |->
                IF first[j] \in DOMAIN conv_table THEN conv_table[first[j]]
                ELSE first[j]]]

RenameWarnings(d, y, lang) ==
    {d.columns[j] : j \in {k \in DOMAIN d.columns :
        _find_column_name_from_data_dir(d.columns[k], y, lang).warn}}

----------------------------------------------------------------------------
(* cleanup(): the call, its three stages and its return *)

\* variant: code substitution runs before value conversion
pipeline_codeFirst == <<"convert_code", "convert_values", "rename", "return">>

\* lines 402-405 in order
pipeline == <<"convert_values", "convert_code", "rename", "return">>

StageAfter(stage) ==
    pipeline[(CHOOSE k \in 1..Len(pipeline) : pipeline[k] = stage) + 1]

\* variant: no copy is made
CopyTarget_noCopy(ip) == 1

\* the object df names after "if not inplace: df = df.copy()"
CopyTarget(ip) == IF ~ip THEN 2 ELSE 1

\* values G02.LATEST_YEAR may have
LatestYearChoices == {2012, 2014}

Call(t, y, ip, lang) ==
    /\ pc = "idle"
    /\ ncalls < MaxCalls
    /\ ncalls' = ncalls + 1
    /\ arg_df' = t
    /\ year' = y
    /\ inplace' = ip
    /\ language' = lang
    /\ heap' = (CopyTarget(ip) :> t) @@ (1 :> t)
    /\ df' = CopyTarget(ip)
    /\ pc' = pipeline[1]
    /\ idx' = 1
    /\ ret' = "pending"
    /\ lookups' = <<>>
    /\ warningLog' = {}
    /\ UNCHANGED <<cache, G02_LATEST_YEAR, resolveVars, renameVars, raceVars>>

ConvertValues ==
    /\ pc = "convert_values"
    /\ LET r == _convert_values(heap[df], year, G02_LATEST_YEAR) IN
        /\ heap' = [heap EXCEPT ![df] = r.df]
        /\ IF r.exc = "ok"
           THEN pc' = StageAfter("convert_values") /\ ret' = ret
           ELSE pc' = "raised" /\ ret' = r.exc
    /\ UNCHANGED <<cache, df, arg_df, year, inplace, language, idx, lookups,
                   warningLog, G02_LATEST_YEAR, ncalls, resolveVars, renameVars,
                   raceVars>>

\* one iteration of the loop of _convert_code
ConvertCodeColumn ==
    /\ pc = "convert_code"
    /\ idx <= Len(heap[df].columns)
    /\ LET i == heap[df].columns[idx]
           r == read_code_list(cache, i, year, language)
           code_dict == r.res
           col == heap[df].data[ColPos(heap[df], i)]
       IN
        /\ cache' = r.cache
        /\ lookups' = Append(lookups, i)
        /\ idx' = idx + 1
        /\ IF code_dict.tag = "None"
           THEN heap' = heap
           ELSE IF code_dict.tag = "table"
           THEN heap' = [heap EXCEPT ![df] =
                    SetColumn(heap[df], i,
                        [r2 \in DOMAIN col |->
                            SubstituteCell(col[r2], code_dict.table)])]
           ELSE heap' = heap
        /\ IF code_dict.tag \notin {"None", "table"}
           THEN pc' = "raised" /\ ret' = code_dict.tag
           ELSE /\ ret' = ret
                /\ pc' = IF idx = Len(heap[df].columns)
                         THEN StageAfter("convert_code") ELSE pc
    /\ UNCHANGED <<df, arg_df, year, inplace, language, warningLog,
                   G02_LATEST_YEAR, ncalls, resolveVars, renameVars, raceVars>>

RenameColumns ==
    /\ pc = "rename"
    /\ heap' = [heap EXCEPT ![df] =
            _rename_columns(heap[df], year, _DEFAULT_COLUMNS[language],
                            language)]
    /\ warningLog' = RenameWarnings(heap[df], year, language)
    /\ pc' = StageAfter("rename")
    /\ UNCHANGED <<cache, df, arg_df, year, inplace, language, idx, ret,
                   lookups, G02_LATEST_YEAR, ncalls, resolveVars, renameVars,
                   raceVars>>

Return ==
    /\ pc = "return"
    /\ ret' = IF ~inplace THEN "df" ELSE "None"
    /\ pc' = "done"
    /\ UNCHANGED <<cache, heap, df, arg_df, year, inplace, language, idx,
                   lookups, warningLog, G02_LATEST_YEAR, ncalls, resolveVars,
                   renameVars, raceVars>>

\* the call is over: the caller drops the tables, the module keeps its cache
Release ==
    /\ pc \in {"done", "raised"}
    /\ pc' = "idle"
    /\ heap' = (1 :> EmptyFrame)
    /\ df' = 1
    /\ arg_df' = EmptyFrame
    /\ year' = PyNone
    /\ inplace' = FALSE
    /\ language' = "ja"
    /\ idx' = 1
    /\ ret' = "pending"
    /\ lookups' = <<>>
    /\ warningLog' = {}
    /\ UNCHANGED <<cache, G02_LATEST_YEAR, ncalls, resolveVars, renameVars,
                   raceVars>>

----------------------------------------------------------------------------
(* Direct requests to the cached reader and to the year tier *)

Resolve(column_name, y, lang) ==
    /\ LET r == read_code_list(cache, column_name, y, lang) IN
        /\ cache' = r.cache
        /\ res' = r.res
    /\ req' = <<column_name, y, lang>>
    /\ UNCHANGED <<cleanupVars, warningLog, renameVars, raceVars>>

FindColumnName(column_name, y, lang) ==
    /\ LET r == _find_column_name_from_data_dir(column_name, y, lang) IN
        /\ fout' = r
        /\ warningLog' = IF r.warn THEN warningLog \cup {column_name}
                         ELSE warningLog
    /\ fin' = <<column_name, y, lang>>
    /\ UNCHANGED <<cache, cleanupVars, resolveVars, raceVars>>

----------------------------------------------------------------------------
(* Threads entering read_code_list with the same arguments *)

Threads == 1..NumThreads

ThreadCheck(t) ==
    /\ tpc[t] = "check"
    /\ LET key == CacheKey(req[1], req[2]) IN
        IF key \in DOMAIN cache
        THEN /\ tres' = [tres EXCEPT ![t] = Found(cache[key])]
             /\ tpc' = [tpc EXCEPT ![t] = "done"]
        ELSE /\ tres' = tres
             /\ tpc' = [tpc EXCEPT ![t] = "load"]
    /\ UNCHANGED <<cache, tdict, cleanupVars, warningLog, resolveVars,
                   renameVars>>

ThreadLoad(t) ==
    /\ tpc[t] = "load"
    /\ LET code_dict == _read_codelist_file(req[1], req[2], req[3]) IN
        /\ tdict' = [tdict EXCEPT ![t] = code_dict]
        /\ IF code_dict.tag \in {"None", "table"}
           THEN tpc' = [tpc EXCEPT ![t] = "store"] /\ tres' = tres
           ELSE /\ tpc' = [tpc EXCEPT ![t] = "done"]
                /\ tres' = [tres EXCEPT ![t] = code_dict]
    /\ UNCHANGED <<cache, cleanupVars, warningLog, resolveVars, renameVars>>

ThreadStore(t) ==
    /\ tpc[t] = "store"
    /\ cache' = IF tdict[t].tag = "table"
                THEN [k \in DOMAIN cache \cup {CacheKey(req[1], req[2])} |->
                        IF k = CacheKey(req[1], req[2]) THEN tdict[t].table
                        ELSE cache[k]]
                ELSE cache
    /\ tpc' = [tpc EXCEPT ![t] = "return"]
    /\ UNCHANGED <<tdict, tres, cleanupVars, warningLog, resolveVars,
                   renameVars>>

ThreadReturn(t) ==
    /\ tpc[t] = "return"
    /\ tres' = [tres EXCEPT ![t] = tdict[t]]
    /\ tpc' = [tpc EXCEPT ![t] = "done"]
    /\ UNCHANGED <<cache, tdict, cleanupVars, warningLog, resolveVars,
                   renameVars>>

----------------------------------------------------------------------------
(* Specifications *)

EmptyCache == <<>>
NoRequest == <<"", PyNone, "ja">>
Pending == [tag |-> "pending", table |-> NoTable]

InitCommon ==
    /\ cache = EmptyCache
    /\ pc = "idle"
    /\ heap = (1 :> EmptyFrame)
    /\ df = 1
    /\ arg_df = EmptyFrame
    /\ year = PyNone
    /\ inplace = FALSE
    /\ language = "ja"
    /\ idx = 1
    /\ ret = "pending"
    /\ lookups = <<>>
    /\ warningLog = {}
    /\ res = Pending
    /\ fin = NoRequest
    /\ fout = [name |-> "", warn |-> FALSE]
    /\ ncalls = 0
    /\ tpc = [t \in Threads |-> "check"]
    /\ tdict = [t \in Threads |-> Pending]
    /\ tres = [t \in Threads |-> Pending]

\* cleanup() called again and again on one module instance
Init ==
    /\ InitCommon
    /\ req = NoRequest
    /\ G02_LATEST_YEAR \in LatestYearChoices

Next ==
    \/ \E t \in Tables, y \in Years, ip \in BOOLEAN, lang \in Languages :
            Call(t, y, ip, lang)
    \/ ConvertValues
    \/ ConvertCodeColumn
    \/ RenameColumns
    \/ Return
    \/ Release

Spec == Init /\ [][Next]_vars

\* read_code_list called again and again
InitResolve ==
    /\ InitCommon
    /\ req = NoRequest
    /\ G02_LATEST_YEAR = 2012

NextResolve ==
    \E c \in Columns, y \in MoreYears, lang \in Languages : Resolve(c, y, lang)

SpecResolve == InitResolve /\ [][NextResolve]_vars

\* _find_column_name_from_data_dir called again and again
NextRename ==
    \E c \in Columns, y \in MoreYears, lang \in Languages :
        FindColumnName(c, y, lang)

SpecRename == InitResolve /\ [][NextRename]_vars

\* NumThreads threads make the first access to one key
InitRace ==
    /\ InitCommon
    /\ req \in Columns \X Years \X Languages
    /\ G02_LATEST_YEAR = 2012

NextRace ==
    \E t \in Threads :
        \/ ThreadCheck(t)
        \/ ThreadLoad(t)
        \/ ThreadStore(t)
        \/ ThreadReturn(t)

SpecRace == InitRace /\ [][NextRace]_vars

----------------------------------------------------------------------------
(* Vocabulary of the properties *)

Known(column_name, lang) ==
    /\ column_name \in DOMAIN Descriptor
    /\ lang \in DOMAIN Descriptor[column_name]

\* year_names of a known column
YearNames(column_name, lang) == Descriptor[column_name][lang]

LatestYear(column_name, lang) ==
    IntStr[Max({StrInt[i] : i \in DOMAIN YearNames(column_name, lang)})]

HasCodeTable(column_name) == \E f \in DOMAIN CodeFiles : f[1] = column_name

\* the year whose lookup file a request asks for
RequestedYear(column_name, y, lang) ==
    IF y[1] = "None" THEN LatestYear(column_name, lang) ELSE str(y)

FileExists(column_name, y, lang) ==
    <<column_name, RequestedYear(column_name, y, lang)>> \in DOMAIN CodeFiles

FileTable(column_name, y, lang) ==
    CodeFiles[<<column_name, RequestedYear(column_name, y, lang)>>]

UnknownEverywhere(column_name) ==
    \A lang \in Languages : ~Known(column_name, lang)

Requested == req[1] # ""
Finished == pc \in {"done", "raised"}

----------------------------------------------------------------------------
(* Properties *)

\* C1: after any sequence of earlier requests, the cached reader returns
\* exactly what the uncached loader returns for the same
\* (column_id, year, language).
C1_CachedEqualsUncached ==
    Requested => res = _read_codelist_file(req[1], req[2], req[3])

\* C2: cleanup completes, and every column unknown to every metadata store
\* keeps its name and its cells.
C2_UnknownColumnsUntouched ==
    Finished =>
        /\ pc = "done"
        /\ \A j \in DOMAIN arg_df.columns :
            UnknownEverywhere(arg_df.columns[j]) =>
                /\ heap[df].columns[j] = arg_df.columns[j]
                /\ heap[df].data[j] = arg_df.data[j]

\* C3: inplace=True works on the caller's table and returns None;
\* inplace=False returns a separate cleaned table and leaves the caller's
\* table as it was; never is the caller's table changed and a table returned.
C3_InplaceOrCopy ==
    /\ (ncalls > 0 /\ ~inplace) => heap[1] = arg_df
    /\ (pc = "done" /\ inplace) =>
            /\ ret = "None"
            /\ heap[1].columns =
                 _rename_columns(arg_df, year, _DEFAULT_COLUMNS[language],
                                 language).columns
    /\ (pc = "done" /\ ~inplace) =>
            /\ ret = "df"
            /\ df # 1
            /\ heap[df].columns =
                 _rename_columns(arg_df, year, _DEFAULT_COLUMNS[language],
                                 language).columns
    /\ ~(ret = "df" /\ heap[1] # arg_df)

C3_Witness ==
    /\ pc = "done"
    /\ ~inplace
    /\ heap[df] # arg_df
    /\ heap[1] = arg_df

\* C4: a cleanup call that ends in a missing lookup file leaves the caller's
\* table as it was, not partly converted.
C4_NoPartialApplication ==
    (pc = "raised" /\ ret = "FileNotFoundError") => heap[1] = arg_df

\* C5: value conversion, then code substitution of every column under its
\* original identifier, then renaming.
C5_StageOrder ==
    /\ pc = "convert_values" => (lookups = <<>> /\ heap[df] = arg_df)
    /\ pc = "convert_code" =>
            /\ heap[df].columns = arg_df.columns
            /\ lookups = SubSeq(arg_df.columns, 1, idx - 1)
            /\ idx = 1 =>
                 heap[df] = _convert_values(arg_df, year, G02_LATEST_YEAR).df
    /\ pc = "rename" =>
            /\ heap[df].columns = arg_df.columns
            /\ lookups = arg_df.columns
    /\ pc \in {"return", "done"} => lookups = arg_df.columns

C5_Witness ==
    /\ pc = "done"
    /\ ConverterFires(year, G02_LATEST_YEAR)
    /\ heap[df].data # arg_df.data
    /\ heap[df].columns # arg_df.columns

\* C6: a request for a column with a code table and a year without a lookup
\* file raises the file-access error, whatever was requested before.
C6_MissingFileAlwaysFails ==
    (/\ Requested
     /\ Known(req[1], req[3])
     /\ HasCodeTable(req[1])
     /\ ~FileExists(req[1], req[2], req[3]))
        => res.tag = "FileNotFoundError"

\* C7 as claimed: a column with a metadata name and a static entry ends with
\* the static table's name for its identifier.
C7_StaticTableWins ==
    pc = "done" =>
        \A j \in DOMAIN arg_df.columns :
            (/\ Known(arg_df.columns[j], language)
             /\ arg_df.columns[j] \in DOMAIN _DEFAULT_COLUMNS[language])
                => heap[df].columns[j] =
                       _DEFAULT_COLUMNS[language][arg_df.columns[j]]

\* C7 amended: such a column ends with the name the metadata tier resolved;
\* the static table is consulted with that resolved name, not with the
\* column identifier.
C7_MetadataNameFirst ==
    pc = "done" =>
        \A j \in DOMAIN arg_df.columns :
            (/\ Known(arg_df.columns[j], language)
             /\ arg_df.columns[j] \in DOMAIN _DEFAULT_COLUMNS[language])
                => LET m == _find_column_name_from_data_dir(
                                arg_df.columns[j], year, language).name
                       t == _DEFAULT_COLUMNS[language]
                   IN heap[df].columns[j] =
                          IF m \in DOMAIN t THEN t[m] ELSE m

C7_Witness ==
    /\ pc = "done"
    /\ \E j \in DOMAIN arg_df.columns :
        /\ Known(arg_df.columns[j], language)
        /\ arg_df.columns[j] \in DOMAIN _DEFAULT_COLUMNS[language]
        /\ heap[df].columns[j] #
                _DEFAULT_COLUMNS[language][arg_df.columns[j]]

\* C8: once code substitution is over, every cell of a known column with a
\* code table is a label of the table resolved for it or NA, and it is NA
\* exactly when its code is not in that table.
C8_LabelsOrNA ==
    pc \in {"rename", "return", "done"} =>
        \A j \in DOMAIN arg_df.columns :
            (/\ Known(arg_df.columns[j], language)
             /\ HasCodeTable(arg_df.columns[j]))
                => /\ CacheKey(arg_df.columns[j], year) \in DOMAIN cache
                   /\ LET t == cache[CacheKey(arg_df.columns[j], year)]
                          before == _convert_values(arg_df, year,
                                        G02_LATEST_YEAR).df.data[j]
                      IN \A r \in DOMAIN heap[df].data[j] :
                            /\ heap[df].data[j][r] \in
                                 {PyStr(l) : l \in Range(t)} \cup {NA}
                            /\ heap[df].data[j][r] = NA
                                 <=> ~InDict(before[r], t)

C8_Witness ==
    /\ pc = "done"
    /\ \E j \in DOMAIN arg_df.columns :
        /\ Known(arg_df.columns[j], language)
        /\ HasCodeTable(arg_df.columns[j])
        /\ \E r \in DOMAIN heap[df].data[j] : heap[df].data[j][r] = NA
        /\ \E r \in DOMAIN heap[df].data[j] : heap[df].data[j][r][1] = "str"

\* C9: threads racing on the first access to one key may each load the file,
\* yet the cache entry is always the table of that key's file and every
\* caller that gets a table gets that one.
C9_RaceKeepsCacheConsistent ==
    /\ \A k \in DOMAIN cache :
        /\ k = CacheKey(req[1], req[2])
        /\ Known(req[1], req[3])
        /\ FileExists(req[1], req[2], req[3])
        /\ cache[k] = FileTable(req[1], req[2], req[3])
    /\ \A t \in Threads :
        (tpc[t] = "done" /\ CacheKey(req[1], req[2]) \in DOMAIN cache)
            => tres[t] = Found(FileTable(req[1], req[2], req[3]))

C9_Witness ==
    /\ \A t \in Threads : tpc[t] = "done" /\ tdict[t].tag = "table"
    /\ CacheKey(req[1], req[2]) \in DOMAIN cache

\* C10: for a known column and a specified year, a year of year_names gives
\* that year's name without a warning, any other year gives default_name with
\* a warning naming the column.
C10_YearTier ==
    (/\ fin[1] # ""
     /\ Known(fin[1], fin[3])
     /\ fin[2][1] # "None")
        => LET yn == YearNames(fin[1], fin[3]) IN
           IF str(fin[2]) \in DOMAIN yn
           THEN fout = [name |-> yn[str(fin[2])], warn |-> FALSE]
           ELSE /\ fout = [name |-> yn[LatestYear(fin[1], fin[3])],
                           warn |-> TRUE]
                /\ fin[1] \in warningLog

====
